---- MODULE Spec2Model ----
(***************************************************************************)
(* A model of the document RAG pipeline: document_loader.py (loading and   *)
(* chunking), supabase_storage_loader.py / google_drive_loader.py (source  *)
(* adapters), vector_store.py (batch insert and similarity search),        *)
(* rag_chain.py (the ask orchestrator) and the callers in api.py/main.py.  *)
(*                                                                         *)
(* External collaborators are modelled by what the code relies on:         *)
(*  - uuid.uuid4(): a value no live object holds (one above the largest    *)
(*    uuid of the table, then counting up within the call);                *)
(*  - a text is a run of characters without separators, identified by the  *)
(*    file and segment it comes from and the slice [from, to) it covers;   *)
(*  - the embedding / store / LLM calls either succeed or raise, which the *)
(*    actions take as inputs;                                              *)
(*  - the store's nearest-neighbour query returns the match_count nearest  *)
(*    records among those whose metadata contains the filter.              *)
(***************************************************************************)
EXTENDS Integers, Sequences, FiniteSets, TLC

VARIABLES
    store,        \* the rows of the Supabase table "documents"
    writes,       \* how many batches have reached the insert loop so far
    embedFailed,  \* whether the embedding call of some batch has raised so far
    call          \* the call being served, with what its caller observes

vars == <<store, writes, embedFailed, call>>

----------------------------------------------------------------------------
\* Bounds of the model.

\* batches that reach the insert loop in one run of the model
MaxWrites == 2
\* files yielded by one directory walk / bucket listing
MaxFiles == 2
\* items of one direct add_documents batch
MaxBatch == 3
\* inserts of one batch that raise
MaxInsertFaults == 1
\* load_document calls in a row by one caller
MaxLoads == 2
\* characters of a text handed to the chunker, and the largest chunk_size
MaxTextLen == 5
MaxChunkSize == 3
\* rows of the table a direct similarity_search is run on
MaxRows == 7

----------------------------------------------------------------------------
\* Program constants.

\* DocumentProcessor.__init__ defaults
ChunkSize == 1000
ChunkOverlap == 200
\* match_count of similarity_search, k of the retriever
MatchCount == 5
RetrieverK == 5

DefaultType == "upload_file"
DefaultTenant == "localhost"
FallbackAnswer == "I don't have enough information to answer that question."
ErrorAnswer == "An error occurred while processing your question."

----------------------------------------------------------------------------
\* Python values.

\* dict.update(other): keys of other overwrite
DictUpdate(d, other) == other @@ d

EmptyDict == [k \in {} |-> ""]

\* Optional[dict]: None, or a dict
None == [isNone |-> TRUE, dict |-> EmptyDict]
Some(d) == [isNone |-> FALSE, dict |-> d]

\* truthiness of an Optional[dict]: None and {} are falsy
Truthy(opt) == ~opt.isNone /\ DOMAIN opt.dict # {}

Min(a, b) == IF a <= b THEN a ELSE b

RECURSIVE Flatten(_)
Flatten(ss) == IF ss = <<>> THEN <<>> ELSE Head(ss) \o Flatten(Tail(ss))

----------------------------------------------------------------------------
\* The files a source adapter can yield. segs: the length of the text of each
\* segment (page, sheet) the format loader extracts; loaderOk: whether
\* loader.load() returns rather than raises.

FileNames == {"a.txt", "b.pdf", "c.bin", "d.docx"}

FileExt(f) ==
    CASE f = "a.txt" -> "txt"
      [] f = "b.pdf" -> "pdf"
      [] f = "c.bin" -> "bin"
      [] f = "d.docx" -> "docx"

FileSegs(f) ==
    CASE f = "a.txt" -> <<2500>>
      [] f = "b.pdf" -> <<1200, 0>>
      [] f = "c.bin" -> <<700>>
      [] f = "d.docx" -> <<900>>

LoaderOk(f) == f # "d.docx"

SupportedExt == {"txt", "docx", "pptx", "xlsx", "pdf"}

\* listings without repetition, in the order the walk yields them
Listings ==
    {l \in UNION {[1..n -> FileNames] : n \in 0..MaxFiles} :
        \A i, j \in DOMAIN l : i # j => l[i] # l[j]}

StorageTypes == {"Local", "SupabaseStorage"}

\* the metadata / tags a caller passes to an ingest: None or {"storage_type": X}
CallerTags == {None, Some([k \in {"storage_type"} |-> "Local"])}

----------------------------------------------------------------------------
\* langchain Document: page_content and metadata.

Text(f, s, from, to) == [file |-> f, seg |-> s, from |-> from, to |-> to]
TextLen(t) == t.to - t.from
EmptyText == Text("", 0, 0, 0)

Document(text, md) == [page_content |-> text, metadata |-> md]

\* a file path: the directory it lies in and its base name
WalkPath(f) == [dir |-> "walk", name |-> f]
\* a NamedTemporaryFile with the file's suffix: the base name is not the file's
TempName(f) ==
    CASE f = "a.txt" -> "tmp1.txt"
      [] f = "b.pdf" -> "tmp2.pdf"
      [] f = "c.bin" -> "tmp3.bin"
      [] f = "d.docx" -> "tmp4.docx"
TempPath(f) == [dir |-> "tmp", name |-> TempName(f)]

\* load_document drawing the uuid inside its loop: one id per segment
LoadDocumentIdPerSegment(f, path, nextUuid) ==
    IF FileExt(f) \notin SupportedExt \/ ~LoaderOk(f)
    THEN [none |-> TRUE, docs |-> <<>>, uuids |-> 0]
    ELSE [none |-> FALSE,
          docs |-> [s \in 1..Len(FileSegs(f)) |->
                      Document(Text(f, s, 0, FileSegs(f)[s]),
                               [id |-> nextUuid + (s - 1),
                                source |-> path,
                                file_name |-> path.name,
                                file_type |-> FileExt(f)])],
          uuids |-> Len(FileSegs(f))]

\* DocumentProcessor.load_document: None for an unsupported extension or a
\* loader that raises; else one Document per segment, all with the one doc id
\* drawn for the file. Returns [docs, none, uuids]: uuids drawn.
LoadDocument(f, path, nextUuid) ==
    IF FileExt(f) \notin SupportedExt \/ ~LoaderOk(f)
    THEN [none |-> TRUE, docs |-> <<>>, uuids |-> 0]
    ELSE [none |-> FALSE,
          docs |-> [s \in 1..Len(FileSegs(f)) |->
                      Document(Text(f, s, 0, FileSegs(f)[s]),
                               [id |-> nextUuid,
                                source |-> path,
                                file_name |-> path.name,
                                file_type |-> FileExt(f)])],
          uuids |-> 1]

\* RecursiveCharacterTextSplitter(chunk_size, chunk_overlap).split_text on a
\* text without separators: it is cut at chunk_size, each next chunk starting
\* chunk_overlap characters before the end of the previous one; an empty text
\* gives no chunk.
NumChunks(len) ==
    IF len = 0 THEN 0
    ELSE IF len <= ChunkSize THEN 1
    ELSE ((len - ChunkOverlap) + (ChunkSize - ChunkOverlap) - 1)
             \div (ChunkSize - ChunkOverlap)

SplitText(t) ==
    [k \in 1..NumChunks(TextLen(t)) |->
        Text(t.file, t.seg,
             t.from + (k - 1) * (ChunkSize - ChunkOverlap),
             Min(t.from + (k - 1) * (ChunkSize - ChunkOverlap) + ChunkSize, t.to))]

\* split_documents: the chunks of each document in turn, each carrying a copy
\* of its document's metadata
SplitDocuments(docs) ==
    Flatten([d \in 1..Len(docs) |->
               [k \in 1..Len(SplitText(docs[d].page_content)) |->
                   Document(SplitText(docs[d].page_content)[k], docs[d].metadata)]])

\* the chunk-positional metadata written by the enumerate loop: the index and
\* the total run over the whole list of chunks
ChunkInfo(i, n, nextUuid) ==
    [chunk_id |-> nextUuid + (i - 1), chunk_index |-> i - 1, total_chunks |-> n]

\* DocumentProcessor.process_documents
ProcessDocuments(documents, metadata, nextUuid) ==
    LET tagged == IF Truthy(metadata)
                  THEN [d \in 1..Len(documents) |->
                          Document(documents[d].page_content,
                                   DictUpdate(documents[d].metadata, metadata.dict))]
                  ELSE documents
        chunks == SplitDocuments(tagged)
    IN [i \in 1..Len(chunks) |->
          Document(chunks[i].page_content,
                   DictUpdate(chunks[i].metadata, ChunkInfo(i, Len(chunks), nextUuid)))]

\* the documents process_directory collects from the files of the walk, with
\* the uuids drawn: files that load to None are passed over
RECURSIVE LoadAll(_, _)
LoadAll(listing, nextUuid) ==
    IF listing = <<>> THEN [docs |-> <<>>, uuids |-> 0]
    ELSE LET one == LoadDocument(Head(listing), WalkPath(Head(listing)), nextUuid)
             rest == LoadAll(Tail(listing), nextUuid + one.uuids)
         IN [docs |-> one.docs \o rest.docs, uuids |-> one.uuids + rest.uuids]

\* DocumentProcessor.process_directory: [chunks, uuids]
ProcessDirectory(listing, metadata, nextUuid) ==
    LET loaded == LoadAll(listing, nextUuid)
        chunks == IF loaded.docs # <<>>
                  THEN ProcessDocuments(loaded.docs, metadata, nextUuid + loaded.uuids)
                  ELSE <<>>
    IN [chunks |-> chunks, uuids |-> loaded.uuids + Len(chunks)]

----------------------------------------------------------------------------
\* vector_store.py: the write path.

\* The items a caller hands to add_documents: a langchain Document object
\* (main.py / api.py local path), or a dict whose "page_content" holds a
\* Document object or nothing and whose "metadata" holds a dict.
DocItem(doc) == [kind |-> "Document", content |-> doc, metadata |-> EmptyDict]
DictItem(doc, md) == [kind |-> "dict", content |-> doc, metadata |-> md]
\* a dict item without page_content (None, missing or "")
NoContent == Document(EmptyText, EmptyDict)
HasContent(item) == item.content # NoContent

\* the metadata defaults added to every new_doc
WithDefaults(md) ==
    LET t == IF "type" \in DOMAIN md THEN md ELSE DictUpdate(md, [type |-> DefaultType])
    IN IF "tenant_id" \in DOMAIN t THEN t
       ELSE DictUpdate(t, [tenant_id |-> DefaultTenant])

\* the new_doc built from one input item: doc.get(...) raises on a Document
\* object; a dict with page_content gives that object (its own metadata,
\* the dict's "metadata" is not read); one without gives an empty Document
\* carrying the dict's metadata
NewDoc(item) ==
    IF item.kind = "Document" THEN [raises |-> TRUE, doc |-> NoContent]
    ELSE IF HasContent(item)
    THEN [raises |-> FALSE,
          doc |-> Document(item.content.page_content,
                           WithDefaults(item.content.metadata))]
    ELSE [raises |-> FALSE,
          doc |-> Document(EmptyText, WithDefaults(item.metadata))]

\* the external embedding function, opaque: the vector of a text
Embed(text) == [vectorOf |-> text]

\* the row sent to table("documents").insert for the i-th new_doc
StoredRecord(doc, id) ==
    [id |-> id, content |-> doc.page_content, metadata |-> doc.metadata,
     embedding |-> Embed(doc.page_content)]

\* the value add_documents returns once the insert loop has run
ReturnAfterLoop(n, failing) == TRUE

\* the insert loop without the per-row try/except: the first insert that
\* raises ends the loop
InsertLoopAbortsOnFailure(docs, failing, nextUuid) ==
    {StoredRecord(docs[i], nextUuid + (i - 1)) :
        i \in {k \in 1..Len(docs) : \A f \in failing : k < f}}

\* the rows the insert loop persists: every row whose own insert does not
\* raise; a raise is caught per row and the loop continues
InsertLoop(docs, failing, nextUuid) ==
    {StoredRecord(docs[i], nextUuid + (i - 1)) : i \in (1..Len(docs)) \ failing}

\* add_documents embedding row by row inside the insert loop: the first row
\* is already stored when the embedding call raises
AddDocumentsEmbedInLoop(documents, embedFails, failing, rows, nextUuid) ==
    LET built == [i \in 1..Len(documents) |-> NewDoc(documents[i])]
        docs == [i \in 1..Len(documents) |-> built[i].doc]
    IN IF \E i \in 1..Len(documents) : built[i].raises
       THEN [stage |-> "build", ret |-> FALSE, rows |-> rows, uuids |-> 0]
       ELSE IF embedFails
       THEN [stage |-> "embed", ret |-> FALSE,
             rows |-> rows \cup {StoredRecord(docs[1], nextUuid)}, uuids |-> 1]
       ELSE [stage |-> "loop",
             ret |-> ReturnAfterLoop(Len(docs), failing),
             rows |-> rows \cup InsertLoop(docs, failing, nextUuid),
             uuids |-> Len(docs)]

\* VectorStoreManager.add_documents(documents). embedFails: embed_documents
\* raises; failing: the positions whose insert raises.
\* stage: where the call ended ("build": an item raised before embedding,
\* "embed": the embedding call raised, "loop": the insert loop ran).
AddDocuments(documents, embedFails, failing, rows, nextUuid) ==
    LET built == [i \in 1..Len(documents) |-> NewDoc(documents[i])]
        docs == [i \in 1..Len(documents) |-> built[i].doc]
    IN IF \E i \in 1..Len(documents) : built[i].raises
       THEN [stage |-> "build", ret |-> FALSE, rows |-> rows, uuids |-> 0]
       ELSE IF embedFails
       THEN [stage |-> "embed", ret |-> FALSE, rows |-> rows, uuids |-> 0]
       ELSE [stage |-> "loop",
             ret |-> ReturnAfterLoop(Len(docs), failing),
             rows |-> rows \cup InsertLoop(docs, failing, nextUuid),
             uuids |-> Len(docs)]

\* RAGChain.process_and_store_documents: add_documents behind a try/except
ProcessAndStoreDocuments(documents, embedFails, failing, rows, nextUuid) ==
    AddDocuments(documents, embedFails, failing, rows, nextUuid)

\* the record of one add_documents call: its input, the faults injected, the
\* table before it, the first uuid it draws, where it ended and its return
AddLog(documents, embedFails, failing, rows, nextUuid, res) ==
    [input |-> documents, embedFails |-> embedFails, failing |-> failing,
     before |-> rows, firstId |-> nextUuid, stage |-> res.stage, ret |-> res.ret]

NoAdd == [input |-> <<>>, embedFails |-> FALSE, failing |-> {},
          before |-> {}, firstId |-> 0, stage |-> "none", ret |-> FALSE]

----------------------------------------------------------------------------
\* The source adapters.

\* SupabaseStorageLoader.download_and_process_file: [] when the download
\* raises, else what load_document returns for the temporary file: the
\* file's Documents, or None
DownloadAndProcessFile(f, downloadFails, nextUuid) ==
    IF downloadFails THEN [none |-> FALSE, docs |-> <<>>, uuids |-> 0]
    ELSE LoadDocument(f, TempPath(f), nextUuid)

\* SupabaseStorageLoader.process_bucket: all_chunks.extend(chunks) for every
\* listed file; extend(None) raises TypeError, which nothing here catches.
\* downFails: the positions of the listing whose download raises.
RECURSIVE ProcessBucket(_, _, _, _)
ProcessBucket(listing, downFails, pos, nextUuid) ==
    IF pos > Len(listing) THEN [raises |-> FALSE, chunks |-> <<>>, uuids |-> 0]
    ELSE LET one == DownloadAndProcessFile(listing[pos], pos \in downFails, nextUuid)
         IN IF one.none
            THEN [raises |-> TRUE, chunks |-> <<>>, uuids |-> one.uuids]
            ELSE LET rest == ProcessBucket(listing, downFails, pos + 1,
                                           nextUuid + one.uuids)
                 IN [raises |-> rest.raises,
                     chunks |-> IF rest.raises THEN <<>> ELSE one.docs \o rest.chunks,
                     uuids |-> one.uuids + rest.uuids]

\* GoogleDriveLoader.download_and_process_file: after the download it calls
\* self.document_loader.process_document, which DocumentProcessor does not
\* define; the AttributeError is caught like a failed download and [] returned
DriveDownloadAndProcessFile(f, downloadFails) == <<>>

\* GoogleDriveLoader.process_folder
ProcessFolder(listing, downFails) ==
    Flatten([i \in 1..Len(listing) |->
               DriveDownloadAndProcessFile(listing[i], i \in downFails)])

\* the dicts api.py / main.py build from the chunks of a bucket or a folder:
\* {"page_content": chunk, "metadata": tags} (main.py: metadata or {})
WrapChunks(chunks, tags) ==
    [i \in 1..Len(chunks) |-> DictItem(chunks[i], tags.dict)]

\* what the caller-facing ingest ends with. api.py: a message, or an
\* HTTPException 500; main.py: a printed line
IngestOutcome(via, raised, nChunks, ret) ==
    IF raised
    THEN IF via = "api" THEN "http_500" ELSE "printed_error"
    ELSE IF nChunks = 0 THEN "none_found"
    ELSE IF ret THEN "stored"
    ELSE IF via = "api" THEN "http_500" ELSE "printed_failed"

----------------------------------------------------------------------------
\* vector_store.py: the read path.

FilterKeys == {"type", "storage_type"}
FilterValues(k) == IF k = "type" THEN {DefaultType, "custom"} ELSE StorageTypes

FilterDicts ==
    UNION {{d \in [ks -> UNION {FilterValues(k) : k \in ks}] :
              \A k \in ks : d[k] \in FilterValues(k)} : ks \in SUBSET FilterKeys}

\* the filter argument of a direct call: None, {} or a dict over FilterKeys
CallerFilters == {None} \cup {Some(d) : d \in FilterDicts}

\* the filter api.py / main.py build from a request
RequestFilters ==
    {None} \cup {Some([k \in {"storage_type"} |-> st]) : st \in StorageTypes}

\* the questions asked: each is about one file's text
Questions == {"a.txt", "b.pdf"}

\* a resolution that sets "type" whatever the caller passed
ResolveFilterOverridesType(filter) ==
    IF Truthy(filter) THEN DictUpdate(filter.dict, [type |-> DefaultType])
    ELSE [type |-> DefaultType]

\* the filter similarity_search hands to match_documents
ResolveFilter(filter) ==
    IF Truthy(filter)
    THEN IF "type" \in DOMAIN filter.dict THEN filter.dict
         ELSE DictUpdate(filter.dict, [type |-> DefaultType])
    ELSE [type |-> DefaultType]

\* the caller's filter object once similarity_search has run: the "type" key
\* is assigned into the dict that was passed in; a falsy filter is rebound
\* locally and left alone
FilterAfterSearch(filter) ==
    IF Truthy(filter) /\ "type" \notin DOMAIN filter.dict
    THEN Some(DictUpdate(filter.dict, [type |-> DefaultType]))
    ELSE filter

\* match_documents: metadata contains every key/value of the filter
Matches(md, f) == \A k \in DOMAIN f : k \in DOMAIN md /\ md[k] = f[k]

\* the opaque similarity of a stored text to a question: higher is nearer
Similarity(question, text) == IF text.file = question THEN 2 ELSE 1

Nearer(question, r, o) ==
    \/ Similarity(question, r.content) > Similarity(question, o.content)
    \/ /\ Similarity(question, r.content) = Similarity(question, o.content)
       /\ r.id <= o.id

\* the k nearest rows, nearest first; ties in store order
RECURSIVE TopK(_, _, _)
TopK(rows, question, k) ==
    IF k = 0 \/ rows = {} THEN <<>>
    ELSE LET best == CHOOSE r \in rows : \A o \in rows : Nearer(question, r, o)
         IN <<best>> \o TopK(rows \ {best}, question, k - 1)

\* the Documents built from the rows match_documents returns for a filter
MatchDocuments(rows, question, f, k) ==
    LET hits == TopK({r \in rows : Matches(r.metadata, f)}, question, k)
    IN [i \in 1..Len(hits) |-> Document(hits[i].content, hits[i].metadata)]

\* similarity_search handing the store query no filter at all, as the
\* retriever does
SimilaritySearchUnfiltered(question, filter, fault, rows) ==
    [resolved |-> ResolveFilter(filter),
     filterAfter |-> FilterAfterSearch(filter),
     queried |-> fault # "embed",
     raised |-> FALSE,
     docs |-> IF fault # "none" THEN <<>>
              ELSE MatchDocuments(rows, question, EmptyDict, MatchCount)]

\* similarity_search without its try/except: an exception of embed_query or
\* of the store query reaches the caller
SimilaritySearchNoCatch(question, filter, fault, rows) ==
    [resolved |-> ResolveFilter(filter),
     filterAfter |-> FilterAfterSearch(filter),
     queried |-> fault # "embed",
     raised |-> fault # "none",
     docs |-> IF fault # "none" THEN <<>>
              ELSE MatchDocuments(rows, question, ResolveFilter(filter), MatchCount)]

\* VectorStoreManager.similarity_search. fault: "embed" (embed_query raises),
\* "rpc" (the store query raises) or "none"; either is caught and [] returned
SimilaritySearch(question, filter, fault, rows) ==
    [resolved |-> ResolveFilter(filter),
     filterAfter |-> FilterAfterSearch(filter),
     queried |-> fault # "embed",
     raised |-> FALSE,
     docs |-> IF fault # "none" THEN <<>>
              ELSE MatchDocuments(rows, question, ResolveFilter(filter), MatchCount)]

\* VectorStoreManager.get_retriever(**kwargs): the kwargs are printed and
\* dropped; the retriever queries with k = 5 and no filter
GetRetriever(rows, question) == MatchDocuments(rows, question, EmptyDict, RetrieverK)

----------------------------------------------------------------------------
\* rag_chain.py: the ask orchestrator.

GeneratedAnswer == "<generated>"

Contents(docs) == [i \in 1..Len(docs) |-> docs[i].page_content]

\* the RetrievalQA chain: retrieve through the retriever, stuff the retrieved
\* texts into the prompt, call the LLM. fault: "retriever" or "llm" raise.
\* steps: the store searches and generation calls made, in order.
RunChain(question, fault, rows) ==
    LET retrieved == GetRetriever(rows, question)
    IN [raises |-> fault # "none",
        genCalls |-> IF fault = "retriever" THEN 0 ELSE 1,
        context |-> IF fault = "retriever" THEN <<>> ELSE retrieved,
        steps |-> IF fault = "retriever" THEN <<"retriever_search">>
                  ELSE <<"retriever_search", "generate">>,
        result |-> GeneratedAnswer,
        source_documents |-> retrieved]

\* the dict answer_question returns from its except branch
ErrorResult == [answer |-> ErrorAnswer, sources |-> <<>>]

\* the dict answer_question returns when the search found nothing
EmptyResult == [answer |-> FallbackAnswer, sources |-> <<>>]

\* the record of one answer_question call besides its result
AskLog(question, filter, searchFault, chainFault, s) ==
    [question |-> question, filter |-> filter,
     searchFault |-> searchFault, chainFault |-> chainFault,
     resolved |-> s.resolved, filterAfter |-> s.filterAfter,
     queried |-> s.queried, docs |-> s.docs, searchCalls |-> 1,
     searchRaised |-> s.raised]

\* answer_question without the "if not docs" early return: the chain runs
\* on an empty search result too
AnswerQuestionAlwaysGenerates(question, filter, searchFault, chainFault, rows) ==
    LET s == SimilaritySearch(question, filter, searchFault, rows)
        c == RunChain(question, chainFault, rows)
        base == AskLog(question, filter, searchFault, chainFault, s)
                    @@ [raised |-> FALSE]
    IN IF c.raises
       THEN base @@ [outcome |-> "FAILED", genCalls |-> c.genCalls,
                     steps |-> <<"similarity_search">> \o c.steps,
                     context |-> c.context, result |-> ErrorResult]
       ELSE base @@ [outcome |-> "ANSWERED", genCalls |-> c.genCalls,
                     steps |-> <<"similarity_search">> \o c.steps,
                     context |-> c.context,
                     result |-> [answer |-> c.result,
                                 sources |-> Contents(c.source_documents)]]

\* answer_question without its try/except: an exception of the chain
\* reaches the caller
AnswerQuestionNoCatch(question, filter, searchFault, chainFault, rows) ==
    LET s == SimilaritySearch(question, filter, searchFault, rows)
        c == RunChain(question, chainFault, rows)
        base == AskLog(question, filter, searchFault, chainFault, s)
    IN IF s.docs = <<>>
       THEN base @@ [outcome |-> "EMPTY_RESULT", genCalls |-> 0, context |-> <<>>,
                     steps |-> <<"similarity_search">>,
                     result |-> EmptyResult, raised |-> FALSE]
       ELSE IF c.raises
       THEN base @@ [outcome |-> "FAILED", genCalls |-> c.genCalls,
                     steps |-> <<"similarity_search">> \o c.steps,
                     context |-> c.context, result |-> EmptyDict,
                     raised |-> TRUE]
       ELSE base @@ [outcome |-> "ANSWERED", genCalls |-> c.genCalls,
                     steps |-> <<"similarity_search">> \o c.steps,
                     context |-> c.context, raised |-> FALSE,
                     result |-> [answer |-> c.result,
                                 sources |-> Contents(c.source_documents)]]

\* RAGChain.answer_question(question, filter): the search, the early return
\* and the chain all sit inside one try whose except returns ErrorResult
AnswerQuestion(question, filter, searchFault, chainFault, rows) ==
    LET s == SimilaritySearch(question, filter, searchFault, rows)
        c == RunChain(question, chainFault, rows)
        base == AskLog(question, filter, searchFault, chainFault, s)
                    @@ [raised |-> FALSE]
    IN IF s.raised
       THEN base @@ [outcome |-> "FAILED", genCalls |-> 0, context |-> <<>>,
                     steps |-> <<"similarity_search">>,
                     result |-> ErrorResult]
       ELSE IF s.docs = <<>>
       THEN base @@ [outcome |-> "EMPTY_RESULT", genCalls |-> 0, context |-> <<>>,
                     steps |-> <<"similarity_search">>,
                     result |-> EmptyResult]
       ELSE IF c.raises
       THEN base @@ [outcome |-> "FAILED", genCalls |-> c.genCalls,
                     steps |-> <<"similarity_search">> \o c.steps,
                     context |-> c.context, result |-> ErrorResult]
       ELSE base @@ [outcome |-> "ANSWERED", genCalls |-> c.genCalls,
                     steps |-> <<"similarity_search">> \o c.steps,
                     context |-> c.context,
                     result |-> [answer |-> c.result,
                                 sources |-> Contents(c.source_documents)]]

\* api.py answer_question (/query): it reads result["source_documents"] and
\* builds the QueryResponse; any exception becomes an HTTPException 500
ApiQueryResponse(result) ==
    IF "source_documents" \in DOMAIN result
    THEN [kind |-> "response", answer |-> result.answer,
          sources |-> result.source_documents]
    ELSE [kind |-> "http_500", answer |-> "", sources |-> <<>>]

\* main.py answer_question (query command): it prints result["answer"], then
\* reads result["source_documents"]; any exception is printed
CliQueryResponse(result) ==
    IF "source_documents" \in DOMAIN result
    THEN [kind |-> "response", answer |-> result.answer,
          sources |-> result.source_documents]
    ELSE [kind |-> "printed_error", answer |-> result.answer, sources |-> <<>>]

QueryResponse(via, result) ==
    IF via = "api" THEN ApiQueryResponse(result) ELSE CliQueryResponse(result)

----------------------------------------------------------------------------
\* The calls a caller can make.

Vias == {"api", "cli"}

\* the items of a direct add_documents call: the batches are the runs of
\* at most MaxBatch consecutive items of this list. The first is a chunk of
\* process_documents, its chunk_id a uuid drawn before any the table holds.
SampleItems ==
    <<DictItem(Document(Text("a.txt", 1, 0, 1000),
                       [source |-> WalkPath("a.txt"), storage_type |-> "Local",
                        chunk_id |-> 0, chunk_index |-> 0, total_chunks |-> 3]),
              EmptyDict),
     DictItem(Document(Text("b.pdf", 1, 0, 1000),
                       [source |-> WalkPath("b.pdf"), type |-> "custom"]),
              EmptyDict),
     DictItem(NoContent, [storage_type |-> "Local"]),
     DocItem(Document(Text("a.txt", 1, 0, 1000), [source |-> WalkPath("a.txt")]))>>

Batches ==
    {b \in {SubSeq(SampleItems, i, j) :
               i \in 1..Len(SampleItems), j \in 1..Len(SampleItems)} :
        Len(b) \in 1..MaxBatch}

\* the faults of one ask request: a search that raised never reaches the chain
SearchFaults == {"none", "embed", "rpc"}
ChainFaults == {"none", "retriever", "llm"}
Faults ==
    {<<sf, cf>> \in SearchFaults \X ChainFaults : sf # "none" => cf = "none"}

\* the insert faults of a batch: the positions whose insert raises
InsertFaults(items) ==
    {F \in SUBSET (DOMAIN items) : Cardinality(F) <= MaxInsertFaults}

Idle == [op |-> "none"]

\* the uuids held by the rows of the table: row ids and document ids
UsedUuids(rows) ==
    {r.id : r \in rows}
        \cup {r.metadata.id : r \in {x \in rows : "id" \in DOMAIN x.metadata}}

SetMax(S) == IF S = {} THEN 0 ELSE CHOOSE m \in S : \A x \in S : x <= m

\* the first value uuid4() gives to a call
FreshUuid == SetMax(UsedUuids(store)) + 1

Writes(stage) == IF stage = "loop" THEN 1 ELSE 0

Init ==
    /\ store = {}
    /\ writes = 0
    /\ embedFailed = FALSE
    /\ call = Idle

\* the rest of a caller-facing ingest once the source adapter has returned
\* chunks (raised: it raised instead): wrap, store, report
Ingest(source, via, listing, tags, raised, chunks, items, firstUuid) ==
    LET stored == ~raised /\ chunks # <<>>
    IN \E embedFails \in BOOLEAN, failing \in InsertFaults(items) :
         LET res == ProcessAndStoreDocuments(items, embedFails, failing, store,
                                             firstUuid)
         IN /\ ~stored \/ embedFails \/ res.stage = "build" => failing = {}
            /\ ~stored \/ res.stage = "build" => ~embedFails
            /\ stored => writes + Writes(res.stage) <= MaxWrites
            /\ store' = IF stored THEN res.rows ELSE store
            /\ writes' = IF stored THEN writes + Writes(res.stage) ELSE writes
            /\ embedFailed' = (embedFailed \/ (stored /\ res.stage = "embed"))
            /\ call' = [op |-> "ingest", source |-> source, via |-> via,
                        listing |-> listing, tags |-> tags, chunks |-> chunks,
                        raised |-> raised,
                        add |-> IF stored
                                THEN AddLog(items, embedFails, failing, store,
                                            firstUuid, res)
                                ELSE NoAdd,
                        afterEmbedFailure |-> embedFailed,
                        outcome |-> IngestOutcome(via, raised, Len(chunks), res.ret)]

\* api.py process_documents (/process), main.py process_documents
IngestLocal ==
    /\ call = Idle
    /\ \E via \in Vias, listing \in Listings, tags \in CallerTags :
         LET pd == ProcessDirectory(listing, tags, FreshUuid)
         IN /\ via = "api" => tags # None
            /\ Ingest("local", via, listing, tags, FALSE, pd.chunks,
                      [i \in 1..Len(pd.chunks) |-> DocItem(pd.chunks[i])],
                      FreshUuid + pd.uuids)

\* api.py process_supabase_storage (/process-storage), main.py
\* process_supabase_storage
IngestStorage ==
    /\ call = Idle
    /\ \E via \in Vias, listing \in Listings, tags \in CallerTags :
         /\ via = "api" => tags # None
         /\ \E downFails \in SUBSET (DOMAIN listing) :
              LET pb == ProcessBucket(listing, downFails, 1, FreshUuid)
              IN Ingest("storage", via, listing, tags, pb.raises, pb.chunks,
                        WrapChunks(pb.chunks, tags), FreshUuid + pb.uuids)

\* api.py process_google_drive (/process-drive), main.py process_google_drive
IngestDrive ==
    /\ call = Idle
    /\ \E via \in Vias, listing \in Listings, tags \in CallerTags :
         /\ via = "api" => tags # None
         /\ \E downFails \in SUBSET (DOMAIN listing) :
              LET chunks == ProcessFolder(listing, downFails)
              IN Ingest("drive", via, listing, tags, FALSE, chunks,
                        WrapChunks(chunks, tags), FreshUuid)

\* a direct call of VectorStoreManager.add_documents /
\* RAGChain.process_and_store_documents with a batch of items
CallAddDocuments ==
    /\ call = Idle
    /\ \E items \in Batches, embedFails \in BOOLEAN :
       \E failing \in InsertFaults(items) :
         LET res == ProcessAndStoreDocuments(items, embedFails, failing, store,
                                             FreshUuid)
         IN /\ embedFails \/ res.stage = "build" => failing = {}
            /\ res.stage = "build" => ~embedFails
            /\ writes + Writes(res.stage) <= MaxWrites
            /\ store' = res.rows
            /\ writes' = writes + Writes(res.stage)
            /\ embedFailed' = (embedFailed \/ res.stage = "embed")
            /\ call' = [op |-> "add",
                        add |-> AddLog(items, embedFails, failing, store, FreshUuid,
                                       res),
                        afterEmbedFailure |-> embedFailed]

\* a direct call of RAGChain.answer_question
CallAnswerQuestion ==
    /\ call = Idle
    /\ UNCHANGED <<store, writes, embedFailed>>
    /\ \E question \in Questions, filter \in CallerFilters, fault \in Faults :
         call' = [op |-> "ask", via |-> "direct",
                  ask |-> AnswerQuestion(question, filter, fault[1], fault[2],
                                         store),
                  response |-> [kind |-> "none", answer |-> "", sources |-> <<>>]]

\* api.py answer_question (/query), main.py answer_question (query command)
Query ==
    /\ call = Idle
    /\ UNCHANGED <<store, writes, embedFailed>>
    /\ \E via \in Vias, question \in Questions, filter \in RequestFilters,
          fault \in Faults :
         LET a == AnswerQuestion(question, filter, fault[1], fault[2], store)
         IN call' = [op |-> "ask", via |-> via, ask |-> a,
                     response |-> QueryResponse(via, a.result)]

\* the caller takes the result; the next call can be made
Return ==
    /\ call # Idle
    /\ call' = Idle
    /\ UNCHANGED <<store, writes, embedFailed>>

Next ==
    \/ IngestLocal
    \/ IngestStorage
    \/ IngestDrive
    \/ CallAddDocuments
    \/ CallAnswerQuestion
    \/ Query
    \/ Return

Spec == Init /\ [][Next]_vars

\* VectorStoreManager driven directly: batches handed to add_documents, no
\* source adapter and no ask request
NextAdd ==
    \/ CallAddDocuments
    \/ Return

SpecAdd == Init /\ [][NextAdd]_vars

\* RAGChain driven directly and through /query and the query command over a
\* table filled by add_documents calls, no source adapter
NextAsk ==
    \/ CallAddDocuments
    \/ CallAnswerQuestion
    \/ Query
    \/ Return

SpecAsk == Init /\ [][NextAsk]_vars


----------------------------------------------------------------------------
\* DocumentProcessor and SupabaseStorageLoader driven directly.

\* the metadata a caller passes to process_directory: the tags of the ingest
\* callers, and tags whose key is one the loader or the chunker writes too
CallerSource == [dir |-> "caller", name |-> "given"]

LoaderTags ==
    CallerTags \cup {Some([id |-> 0]),
                     Some([chunk_id |-> 0]),
                     Some([chunk_index |-> 7]),
                     Some([source |-> CallerSource]),
                     Some([type |-> "custom"])}

\* a direct call of DocumentProcessor.process_directory
CallProcessDirectory ==
    /\ call = Idle
    /\ UNCHANGED <<store, writes, embedFailed>>
    /\ \E listing \in Listings, tags \in LoaderTags :
         LET loaded == LoadAll(listing, FreshUuid)
             pd == ProcessDirectory(listing, tags, FreshUuid)
         IN call' = [op |-> "process_directory", listing |-> listing,
                     tags |-> tags, loaded |-> loaded.docs,
                     chunks |-> pd.chunks,
                     firstChunkId |-> FreshUuid + loaded.uuids]

\* a direct call of SupabaseStorageLoader.process_bucket
CallProcessBucket ==
    /\ call = Idle
    /\ UNCHANGED <<store, writes, embedFailed>>
    /\ \E listing \in Listings :
       \E downFails \in SUBSET (DOMAIN listing) :
         LET pb == ProcessBucket(listing, downFails, 1, FreshUuid)
         IN call' = [op |-> "process_bucket", listing |-> listing,
                     downFails |-> downFails, raised |-> pb.raises,
                     chunks |-> pb.chunks]

\* direct calls of DocumentProcessor.load_document by a caller that keeps
\* what each call returned: at most MaxLoads calls in a row
CallLoadDocument ==
    /\ call = Idle \/ (call.op = "load_document" /\ Len(call.files) < MaxLoads)
    /\ UNCHANGED <<store, writes, embedFailed>>
    /\ \E f \in FileNames :
         LET files == IF call = Idle THEN <<>> ELSE call.files
             results == IF call = Idle THEN <<>> ELSE call.results
             held == UNION {{results[i].docs[s].metadata.id :
                               s \in DOMAIN results[i].docs} :
                            i \in DOMAIN results}
             nextUuid == SetMax(UsedUuids(store) \cup held) + 1
         IN call' = [op |-> "load_document", files |-> Append(files, f),
                     results |-> Append(results,
                                        LoadDocument(f, WalkPath(f), nextUuid))]

NextLoad ==
    \/ CallProcessDirectory
    \/ CallProcessBucket
    \/ CallLoadDocument
    \/ Return

SpecLoad == Init /\ [][NextLoad]_vars


----------------------------------------------------------------------------
\* The chunker on texts given character by character, for any chunk_size and
\* chunk_overlap: RecursiveCharacterTextSplitter with its defaults
\* (keep_separator, strip_whitespace, separators "\n\n", "\n", " ", ""). The
\* texts hold letters and blanks, so the two newline separators never match.

Chars == {"a", "b", " "}

Texts == UNION {[1..n -> Chars] : n \in 0..MaxTextLen}

Separators == <<" ", "">>

\* DocumentProcessor.__init__: the splitter's constructor raises ValueError
\* for a chunk_overlap larger than chunk_size, and for no other pair
NewTextSplitter(chunk_size, chunk_overlap) ==
    [raises |-> chunk_overlap > chunk_size]

HasChar(text, c) == \E i \in DOMAIN text : text[i] = c

\* str.strip()
RECURSIVE Strip(_)
Strip(text) ==
    IF text = <<>> THEN <<>>
    ELSE IF Head(text) = " " THEN Strip(Tail(text))
    ELSE IF text[Len(text)] = " " THEN Strip(SubSeq(text, 1, Len(text) - 1))
    ELSE text

\* the pieces of a text cut at a separator that is kept at the head of the
\* piece it precedes; "" cuts between all characters; empty pieces dropped
SplitWithSeparator(text, separator) ==
    IF separator = ""
    THEN [i \in 1..Len(text) |-> <<text[i]>>]
    ELSE LET at == {i \in DOMAIN text : text[i] = separator}
             starts == {1} \cup at
             EndOf(st) == IF \E p \in at : p > st
                          THEN (CHOOSE p \in at :
                                   p > st /\ \A q \in at : q > st => p <= q) - 1
                          ELSE Len(text)
             Nth(k) == CHOOSE st \in starts :
                           Cardinality({o \in starts : o < st}) = k - 1
             pieces == [k \in 1..Cardinality(starts) |->
                          SubSeq(text, Nth(k), EndOf(Nth(k)))]
         IN SelectSeq(pieces, LAMBDA piece : piece # <<>>)

\* _join_docs: the pieces joined and stripped; an empty text is no chunk
JoinDocs(docs, current) ==
    IF Strip(Flatten(current)) = <<>> THEN docs
    ELSE Append(docs, Strip(Flatten(current)))

\* the while loop of _merge_splits: pieces leave the head of the current
\* chunk until at most chunk_overlap characters are left and the next piece
\* fits
RECURSIVE DropHead(_, _, _, _)
DropHead(current, len, chunk_size, chunk_overlap) ==
    IF \/ Len(Flatten(current)) > chunk_overlap
       \/ (Len(Flatten(current)) + len > chunk_size /\ Len(Flatten(current)) > 0)
    THEN DropHead(Tail(current), len, chunk_size, chunk_overlap)
    ELSE current

\* _merge_splits with the separator "": the pieces are gathered into chunks of
\* at most chunk_size characters
RECURSIVE MergeSplits(_, _, _, _, _)
MergeSplits(splits, chunk_size, chunk_overlap, current, docs) ==
    IF splits = <<>> THEN JoinDocs(docs, current)
    ELSE IF Len(Flatten(current)) + Len(Head(splits)) > chunk_size
            /\ current # <<>>
    THEN MergeSplits(Tail(splits), chunk_size, chunk_overlap,
                     Append(DropHead(current, Len(Head(splits)), chunk_size,
                                     chunk_overlap),
                            Head(splits)),
                     JoinDocs(docs, current))
    ELSE MergeSplits(Tail(splits), chunk_size, chunk_overlap,
                     Append(current, Head(splits)), docs)

MergeGood(good, chunk_size, chunk_overlap) ==
    IF good = <<>> THEN <<>>
    ELSE MergeSplits(good, chunk_size, chunk_overlap, <<>>, <<>>)

\* _split_text: the first separator found in the text cuts it; pieces
\* shorter than chunk_size are merged, a longer one is split by the
\* separators that remain, or kept whole when none remains
RECURSIVE SplitTextBy(_, _, _, _)
RECURSIVE SplitPieces(_, _, _, _, _, _)
SplitPieces(splits, good, final, separators, chunk_size, chunk_overlap) ==
    IF splits = <<>>
    THEN final \o MergeGood(good, chunk_size, chunk_overlap)
    ELSE IF Len(Head(splits)) < chunk_size
    THEN SplitPieces(Tail(splits), Append(good, Head(splits)), final,
                     separators, chunk_size, chunk_overlap)
    ELSE SplitPieces(Tail(splits), <<>>,
                     final \o MergeGood(good, chunk_size, chunk_overlap)
                           \o (IF separators = <<>> THEN <<Head(splits)>>
                               ELSE SplitTextBy(Head(splits), separators,
                                                chunk_size, chunk_overlap)),
                     separators, chunk_size, chunk_overlap)

SplitTextBy(text, separators, chunk_size, chunk_overlap) ==
    IF Head(separators) # "" /\ HasChar(text, Head(separators))
    THEN SplitPieces(SplitWithSeparator(text, Head(separators)), <<>>, <<>>,
                     Tail(separators), chunk_size, chunk_overlap)
    ELSE IF Head(separators) # ""
    THEN SplitTextBy(text, Tail(separators), chunk_size, chunk_overlap)
    ELSE SplitPieces(SplitWithSeparator(text, ""), <<>>, <<>>, <<>>,
                     chunk_size, chunk_overlap)

\* text_splitter.split_text(text) of a DocumentProcessor(chunk_size,
\* chunk_overlap)
SplitChars(text, chunk_size, chunk_overlap) ==
    SplitTextBy(text, Separators, chunk_size, chunk_overlap)

\* a DocumentProcessor built with (chunk_size, chunk_overlap) and its chunker
\* run on one text
CallSplitText ==
    /\ call = Idle
    /\ UNCHANGED <<store, writes, embedFailed>>
    /\ \E chunk_size \in 1..MaxChunkSize, chunk_overlap \in 0..(MaxChunkSize + 1),
          text \in Texts :
         LET made == NewTextSplitter(chunk_size, chunk_overlap)
         IN call' = [op |-> "split_text", chunk_size |-> chunk_size,
                     chunk_overlap |-> chunk_overlap, text |-> text,
                     raised |-> made.raises,
                     chunks |-> IF made.raises THEN <<>>
                                ELSE SplitChars(text, chunk_size, chunk_overlap)]

NextChunk ==
    \/ CallSplitText
    \/ Return

SpecChunk == Init /\ [][NextChunk]_vars


----------------------------------------------------------------------------
\* VectorStoreManager.similarity_search called directly on a table that one
\* add_documents call has filled.

\* the batches of at most MaxRows dict items
RowBatches ==
    UNION {[1..n -> {SampleItems[i] : i \in {k \in DOMAIN SampleItems :
                                               SampleItems[k].kind = "dict"}}] :
           n \in 0..MaxRows}

\* the table after add_documents has stored such a batch without a fault
InitSearch ==
    /\ \E batch \in RowBatches :
         /\ store = AddDocuments(batch, FALSE, {}, {}, 1).rows
         /\ writes = IF batch = <<>> THEN 0 ELSE 1
    /\ embedFailed = FALSE
    /\ call = Idle

\* a direct call of VectorStoreManager.similarity_search
CallSimilaritySearch ==
    /\ call = Idle
    /\ UNCHANGED <<store, writes, embedFailed>>
    /\ \E question \in Questions, filter \in CallerFilters,
          fault \in SearchFaults :
         call' = [op |-> "search", question |-> question, filter |-> filter,
                  fault |-> fault,
                  search |-> SimilaritySearch(question, filter, fault, store)]

NextSearch ==
    \/ CallSimilaritySearch
    \/ Return

SpecSearch == InitSearch /\ [][NextSearch]_vars


----------------------------------------------------------------------------
\* The claims.

IsBatch == call.op \in {"add", "ingest"}
IsAsk == call.op = "ask"

\* the row a batch stores for its j-th item
RowOf(j) ==
    {r \in store \ call.add.before :
        /\ r.id = call.add.firstId + (j - 1)
        /\ r.content = call.add.input[j].content.page_content}

\* the document ids of the chunks an ingest produced
DocIdsOf(chunks) == {chunks[i].metadata.id : i \in DOMAIN chunks}
ChunksOfDoc(chunks, d) == {i \in DOMAIN chunks : chunks[i].metadata.id = d}

\* C1: for every document of a batch passed to the chunker, the
\* chunk_index values of its chunks are exactly 0..n-1 and every one of its
\* chunks carries total_chunks = n, where n is the number of chunks of that
\* document.
C1_ChunkIndexDensePerDocument ==
    (call.op = "ingest" /\ call.source = "local") =>
        \A d \in DocIdsOf(call.chunks) :
            LET mine == ChunksOfDoc(call.chunks, d)
            IN /\ {call.chunks[i].metadata.chunk_index : i \in mine}
                      = 0..(Cardinality(mine) - 1)
               /\ \A i \in mine :
                      call.chunks[i].metadata.total_chunks = Cardinality(mine)

\* C2: once the embedding call of a batch has succeeded, an insert that
\* raises does not abort the batch: every item whose own insert does not
\* raise has its row in the table when the call returns.
C2_FailedInsertDoesNotAbortBatch ==
    (IsBatch /\ call.add.stage = "loop") =>
        \A j \in DOMAIN call.add.input :
            j \notin call.add.failing => RowOf(j) # {}

\* a batch of three whose second insert raised and whose third row is stored
C2_Witness ==
    /\ IsBatch /\ call.add.stage = "loop"
    /\ Len(call.add.input) = 3 /\ call.add.failing = {2}
    /\ RowOf(1) # {} /\ RowOf(3) # {}

\* C3: the batch insert returns a report that tells a batch in which some
\* insert failed from a batch in which every insert succeeded.
C3_ReportDistinguishesFailedInserts ==
    (IsBatch /\ call.add.stage = "loop" /\ call.add.failing # {}) =>
        call.add.ret # ReturnAfterLoop(Len(call.add.input), {})

\* C4: a batch whose embedding call raises stores nothing, leaves the table
\* as it was and reports the failure; a batch inserted after such a failure
\* is stored in full when nothing fails in it.
C4_EmbeddingFailureFailsWholeBatch ==
    /\ (IsBatch /\ call.add.stage = "embed") =>
           store = call.add.before /\ call.add.ret = FALSE
    /\ (IsBatch /\ call.afterEmbedFailure /\ call.add.stage = "loop"
            /\ call.add.failing = {}) =>
           /\ call.add.ret = TRUE
           /\ Cardinality(store \ call.add.before) = Len(call.add.input)

\* a batch stored in full after the embedding call of an earlier batch raised
C4_Witness ==
    /\ IsBatch /\ call.afterEmbedFailure /\ embedFailed
    /\ call.add.stage = "loop" /\ call.add.failing = {}
    /\ Cardinality(store \ call.add.before) = Len(call.add.input)
    /\ Len(call.add.input) > 1

\* C5: when the similarity search of an ask request returns no chunk, the
\* request returns the fixed fallback answer with no sources and the
\* generation function is not called.
C5_EmptySearchGivesFallbackWithoutGeneration ==
    (IsAsk /\ call.ask.docs = <<>>) =>
        /\ call.ask.result.answer
               = "I don't have enough information to answer that question."
        /\ call.ask.result.sources = <<>>
        /\ call.ask.genCalls = 0

\* a search that ran without fault on a table that holds rows and found none
C5_Witness ==
    /\ IsAsk /\ call.ask.docs = <<>>
    /\ call.ask.searchFault = "none" /\ store # {}

\* an exception was raised while the request was served
AskException ==
    \/ call.ask.searchFault # "none"
    \/ call.ask.docs # <<>> /\ call.ask.chainFault # "none"

\* C6 as stated: an exception during search or generation gives a result
\* with the fallback answer text, no sources and an error flag, and is not
\* propagated.
C6_FailureGivesFallbackWithErrorFlag ==
    (IsAsk /\ AskException) =>
        /\ ~call.ask.raised
        /\ call.ask.result.answer
               = "I don't have enough information to answer that question."
        /\ call.ask.result.sources = <<>>
        /\ "error" \in DOMAIN call.ask.result

\* C6, amended: no exception is propagated; an exception of the chain
\* (retrieval or generation) gives {answer: "An error occurred while
\* processing your question.", sources: []}; an exception of the search is
\* swallowed by similarity_search and gives the plain empty-result fallback
\* without a generation call; neither result carries an error flag.
C6_FailureIsCaughtAndAnswered ==
    IsAsk =>
        /\ ~call.ask.raised
        /\ DOMAIN call.ask.result = {"answer", "sources"}
        /\ (call.ask.docs # <<>> /\ call.ask.chainFault # "none") =>
               /\ call.ask.result.answer
                      = "An error occurred while processing your question."
               /\ call.ask.result.sources = <<>>
        /\ call.ask.searchFault # "none" =>
               /\ call.ask.result.answer
                      = "I don't have enough information to answer that question."
               /\ call.ask.result.sources = <<>>
               /\ call.ask.genCalls = 0

\* the generation call of a request raised
C6_Witness ==
    /\ IsAsk /\ call.ask.docs # <<>>
    /\ call.ask.chainFault = "llm" /\ call.ask.genCalls = 1

\* C7: every ask request made through /query or the query command ends
\* with a structured {answer, sources} result carrying the orchestrator's
\* answer.
C7_QueryEndsWithStructuredResult ==
    (IsAsk /\ call.via \in Vias) =>
        /\ call.response.kind = "response"
        /\ call.response.answer = call.ask.result.answer

\* C8: in the ANSWERED outcome the context given to the generation function
\* and the returned sources are exactly the chunks the similarity search
\* returned, all of which match the resolved filter.
C8_AnswerUsesFilteredChunks ==
    (IsAsk /\ call.ask.outcome = "ANSWERED") =>
        /\ call.ask.context = call.ask.docs
        /\ call.ask.result.sources = Contents(call.ask.docs)
        /\ \A i \in DOMAIN call.ask.context :
               Matches(call.ask.context[i].metadata, call.ask.resolved)

\* C9: the filter of the store query is {type: "upload_file"} when the
\* caller passes none, the caller's filter plus type = "upload_file" when it
\* has no "type" key, and the caller's filter itself when it has one.
C9_ResolvedFilter ==
    IsAsk =>
        LET f == call.ask.filter
            r == call.ask.resolved
        IN /\ f.isNone => r = [type |-> "upload_file"]
           /\ (~f.isNone /\ "type" \notin DOMAIN f.dict) =>
                  /\ DOMAIN r = DOMAIN f.dict \cup {"type"}
                  /\ r["type"] = "upload_file"
                  /\ \A k \in DOMAIN f.dict : r[k] = f.dict[k]
           /\ (~f.isNone /\ "type" \in DOMAIN f.dict) => r = f.dict

\* a store query made with a caller filter that names another type
C9_Witness ==
    /\ IsAsk /\ call.ask.queried
    /\ ~call.ask.filter.isNone
    /\ "type" \in DOMAIN call.ask.filter.dict
    /\ call.ask.filter.dict["type"] = "custom"
    /\ call.ask.docs # <<>>

\* C10: the mapping the caller passed as filter has, after the call, the
\* keys and values it had before it.
C10_CallerFilterNotMutated ==
    IsAsk => call.ask.filterAfter = call.ask.filter

\* the Document of load_document a chunk of the call was cut from
LoadedOf(chunk) ==
    CHOOSE d \in {call.loaded[i] : i \in DOMAIN call.loaded} :
        /\ d.page_content.file = chunk.page_content.file
        /\ d.page_content.seg = chunk.page_content.seg

\* C11: where a caller tag has the key of a system default, a provenance
\* field or a chunk-positional field, the chunk's metadata holds the caller's
\* value; the document id and the chunk id keep the value the loader and the
\* chunker assigned, whatever the caller tags hold.
C11_CallerTagWinsExceptIdentity ==
    (call.op = "process_directory" /\ ~call.tags.isNone) =>
        \A i \in DOMAIN call.chunks : \A k \in DOMAIN call.tags.dict :
            LET md == call.chunks[i].metadata
            IN IF k = "id"
               THEN md["id"] = LoadedOf(call.chunks[i]).metadata.id
               ELSE IF k = "chunk_id"
               THEN md["chunk_id"] = call.firstChunkId + (i - 1)
               ELSE md[k] = call.tags.dict[k]

\* C12: every row an ingest called with caller tags has stored carries each
\* of those tags in its metadata.
C12_IngestTagsPersisted ==
    (call.op = "ingest" /\ call.add.stage # "none" /\ ~call.tags.isNone) =>
        \A r \in store \ call.add.before : \A k \in DOMAIN call.tags.dict :
            k \in DOMAIN r.metadata /\ r.metadata[k] = call.tags.dict[k]

\* C13: no row of the table has an empty content: an item whose text is
\* empty or missing is never inserted.
C13_NoEmptyContentStored ==
    \A r \in store : TextLen(r.content) > 0

\* C14: the table holds at most one row per chunk, and the id of a row is
\* the chunk_id of the chunk it stores.
C14_OneRowPerChunkWithChunkId ==
    /\ \A r \in store :
           "chunk_id" \in DOMAIN r.metadata => r.id = r.metadata.chunk_id
    /\ \A r, o \in store :
           ("chunk_id" \in DOMAIN r.metadata /\ "chunk_id" \in DOMAIN o.metadata
                /\ r.metadata.chunk_id = o.metadata.chunk_id) => r = o

\* C14, its first half alone: at most one row per chunk
C14_OneRowPerChunk ==
    \A r, o \in store :
        ("chunk_id" \in DOMAIN r.metadata /\ "chunk_id" \in DOMAIN o.metadata
             /\ r.metadata.chunk_id = o.metadata.chunk_id) => r = o

\* the segments carry one document id exactly when they are of one file
OneIdPerFile(docs) ==
    \A i, j \in DOMAIN docs :
        (docs[i].metadata.id = docs[j].metadata.id)
            <=> (docs[i].page_content.file = docs[j].page_content.file)

\* C15: the segments one load_document call returns carry one document id,
\* and the segments of two different files, or of two separate loads of one
\* file, carry different document ids.
C15_OneDocumentIdPerLoad ==
    /\ call.op = "load_document" =>
           \A i, j \in DOMAIN call.results :
               \A s \in DOMAIN call.results[i].docs,
                  t \in DOMAIN call.results[j].docs :
                   (call.results[i].docs[s].metadata.id
                        = call.results[j].docs[t].metadata.id) <=> (i = j)
    /\ call.op = "process_bucket" => OneIdPerFile(call.chunks)
    /\ call.op = "process_directory" => OneIdPerFile(call.loaded)

\* a file of two segments loaded twice: two ids, each on both segments
C15_Witness ==
    /\ call.op = "load_document" /\ call.files = <<"b.pdf", "b.pdf">>
    /\ Len(call.results[1].docs) = 2 /\ Len(call.results[2].docs) = 2
    /\ call.results[1].docs[1].metadata.id = call.results[1].docs[2].metadata.id
    /\ call.results[2].docs[1].metadata.id # call.results[1].docs[1].metadata.id

\* the file at position p of the call's listing loads: its download did not
\* fail and load_document returns its Documents
LoadsAt(p) ==
    /\ ~LoadDocument(call.listing[p], WalkPath(call.listing[p]), 1).none
    /\ call.op = "process_bucket" => p \notin call.downFails

\* C16: a file that is unsupported or whose extraction fails is skipped and
\* the other files are still processed: the output of a directory walk or of
\* a bucket holds every segment with text of every listed file that loads.
C16_FailingFileIsSkipped ==
    call.op \in {"process_directory", "process_bucket"} =>
        \A p \in DOMAIN call.listing :
            LoadsAt(p) =>
                \A s \in DOMAIN FileSegs(call.listing[p]) :
                    FileSegs(call.listing[p])[s] > 0 =>
                        \E i \in DOMAIN call.chunks :
                            /\ call.chunks[i].page_content.file = call.listing[p]
                            /\ call.chunks[i].page_content.seg = s

\* C16 on the directory walk alone
C16_FailingFileIsSkippedInWalk ==
    call.op = "process_directory" =>
        \A p \in DOMAIN call.listing :
            LoadsAt(p) =>
                \A s \in DOMAIN FileSegs(call.listing[p]) :
                    FileSegs(call.listing[p])[s] > 0 =>
                        \E i \in DOMAIN call.chunks :
                            /\ call.chunks[i].page_content.file = call.listing[p]
                            /\ call.chunks[i].page_content.seg = s

\* the chunk texts put together again, the first chunk_overlap characters of
\* every chunk but the first left out
DeOverlap(chunks, chunk_overlap) ==
    IF chunks = <<>> THEN <<>>
    ELSE Head(chunks)
           \o Flatten([k \in 1..(Len(chunks) - 1) |->
                         SubSeq(chunks[k + 1], chunk_overlap + 1,
                                Len(chunks[k + 1]))])

\* C17: with chunk_overlap >= chunk_size (the two equal included) building
\* or using the chunker fails with a configuration error and no chunk is
\* produced.
C17_OverlapNotBelowSizeIsRejected ==
    (call.op = "split_text" /\ call.chunk_overlap >= call.chunk_size) =>
        call.raised /\ call.chunks = <<>>

\* C18: for 0 <= chunk_overlap < chunk_size, the chunk texts in chunk_index
\* order, put together without the chunk_overlap characters consecutive
\* chunks share, are the document's text.
C18_DeOverlapRoundTrip ==
    (call.op = "split_text" /\ call.chunk_overlap < call.chunk_size) =>
        DeOverlap(call.chunks, call.chunk_overlap) = call.text

\* the rows of the table the resolved filter of the call selects
MatchingRows == {r \in store : Matches(r.metadata, call.search.resolved)}

\* C19: similarity_search returns at most 5 chunks, each the content and
\* metadata of a stored row whose metadata holds every key/value of the
\* resolved filter; on an empty table, or when no row matches, it returns the
\* empty sequence and raises nothing.
C19_SearchReturnsAtMostKMatchingRows ==
    call.op = "search" =>
        /\ ~call.search.raised
        /\ Len(call.search.docs) <= 5
        /\ \A i \in DOMAIN call.search.docs :
               \E r \in MatchingRows :
                   /\ r.content = call.search.docs[i].page_content
                   /\ r.metadata = call.search.docs[i].metadata
        /\ MatchingRows = {} => call.search.docs = <<>>

\* a search that returns 5 chunks from a table that holds more matching rows
\* and rows that do not match
C19_Witness ==
    /\ call.op = "search" /\ call.search.queried
    /\ Len(call.search.docs) = 5
    /\ Cardinality(MatchingRows) > 5
    /\ store \ MatchingRows # {}

\* the positions of the request's steps that are searches of the store, and
\* those that are generation calls
SearchSteps ==
    {i \in DOMAIN call.ask.steps :
        call.ask.steps[i] \in {"similarity_search", "retriever_search"}}
GenerateSteps == {i \in DOMAIN call.ask.steps : call.ask.steps[i] = "generate"}

\* C20: an ask request makes exactly one similarity search, before any
\* generation call; it calls generation at most once, and only when that
\* search returned a chunk; it ends with a result.
C20_OneSearchThenAtMostOneGeneration ==
    IsAsk =>
        /\ Cardinality(SearchSteps) = 1
        /\ \A g \in GenerateSteps : \E q \in SearchSteps : q < g
        /\ Cardinality(GenerateSteps) <= 1
        /\ GenerateSteps # {} => call.ask.docs # <<>>
        /\ ~call.ask.raised /\ "answer" \in DOMAIN call.ask.result

\* C20 without the count of searches: the first step is similarity_search,
\* generation comes after it, at most once and only when it returned a chunk,
\* and the request ends with a result
C20_SearchFirstThenAtMostOneGeneration ==
    IsAsk =>
        /\ call.ask.steps[1] = "similarity_search"
        /\ \A g \in GenerateSteps : g > 1
        /\ Cardinality(GenerateSteps) <= 1
        /\ GenerateSteps # {} => call.ask.docs # <<>>
        /\ ~call.ask.raised /\ "answer" \in DOMAIN call.ask.result

\* the ask request a caller would see for the same question and filter when
\* the search runs without fault and no row matches
GenuineNoMatch ==
    AnswerQuestion(call.ask.question, call.ask.filter, "none", "none", {})

\* C21: similarity_search never raises; when embedding the query or the
\* store query fails it returns the empty list, and answer_question then
\* returns the "I don't have enough information" result without calling
\* generation: what the caller gets back (the result, no exception, the
\* filter object) is what a genuine no-match gives.
C21_SearchFailureLooksLikeNoMatch ==
    IsAsk =>
        /\ ~call.ask.searchRaised
        /\ call.ask.searchFault # "none" =>
               /\ call.ask.docs = <<>>
               /\ call.ask.result
                      = [answer |-> "I don't have enough information to answer that question.",
                         sources |-> <<>>]
               /\ call.ask.genCalls = 0
               /\ GenerateSteps = {}
               /\ ~call.ask.raised
               /\ GenuineNoMatch.outcome = "EMPTY_RESULT"
               /\ call.ask.result = GenuineNoMatch.result
               /\ call.ask.raised = GenuineNoMatch.raised
               /\ call.ask.filterAfter = GenuineNoMatch.filterAfter

\* an ask request whose search failed although the table holds rows that
\* match its filter: without the fault the search would have found them
C21_Witness ==
    /\ IsAsk /\ call.ask.searchFault # "none"
    /\ MatchDocuments(store, call.ask.question, call.ask.resolved, MatchCount)
           # <<>>
    /\ call.ask.result = EmptyResult

====
